---- MODULE Spec2Model ----
(***************************************************************************)
(* parquet2jsonl: convert .parquet files to sharded .jsonl.gz files.       *)
(*                                                                         *)
(* Four specifications over one set of variables:                          *)
(*   Spec          the pipeline of main.rs: a rayon pool of workers runs   *)
(*                 process_parquet on every discovered file and shares one *)
(*                 atomic shard counter;                                   *)
(*   SpecCodec     compress_data / write_mem_to_pathbuf and the reader     *)
(*                 read_local_file_into_memory on arbitrary paths;         *)
(*   SpecDecode    parquet_to_json, one row group per step;                *)
(*   SpecDiscover  expand_dirs, one locator per step.                      *)
(*                                                                         *)
(* Strings and paths are sequences of one-character strings.  File bytes   *)
(* are sequences of tokens [tag, body].                                    *)
(***************************************************************************)
EXTENDS Integers, Sequences, FiniteSets, TLC

(***************************************************************************)
(* Bounds of the model.                                                    *)
(***************************************************************************)
MaxFiles == 2
MaxWorkers == 2
MaxRows == 3
MaxDocs == 3
MaxExtLen == 4
MaxLocators == 3

(***************************************************************************)
(* Generic helpers on sequences.                                           *)
(***************************************************************************)
Range(s) == {s[i] : i \in 1..Len(s)}

Min(a, b) == IF a <= b THEN a ELSE b

RECURSIVE SeqsUpTo(_, _)
SeqsUpTo(S, n) ==
  IF n = 0 THEN {<<>>}
  ELSE LET shorter == SeqsUpTo(S, n - 1)
       IN  shorter \cup {Append(s, x) : s \in {t \in shorter : Len(t) = n - 1}, x \in S}

(***************************************************************************)
(* std::path::Path::extension.  None is modelled by NoExt, which is not a  *)
(* sequence of characters.                                                 *)
(***************************************************************************)
NoExt == <<"None">>

\* Index of the last occurrence of character c in s, 0 when absent.
LastIndexOf(s, c) ==
  LET hits == {i \in 1..Len(s) : s[i] = c}
  IN  IF hits = {} THEN 0 ELSE CHOOSE i \in hits : \A j \in hits : j <= i

\* The components of a path between separators.
RECURSIVE SplitOn(_, _)
SplitOn(s, c) ==
  LET hits == {i \in 1..Len(s) : s[i] = c}
  IN  IF hits = {} THEN <<s>>
      ELSE LET i == CHOOSE k \in hits : \A j \in hits : k <= j
           IN  <<SubSeq(s, 1, i - 1)>> \o SplitOn(SubSeq(s, i + 1, Len(s)), c)

\* Path::file_name: the last normal component; empty and "." components are
\* normalised away, a path ending in ".." has no file name.
file_name(path) ==
  LET parts == SelectSeq(SplitOn(path, "/"), LAMBDA p : p # <<>> /\ p # <<".">>)
  IN  IF parts = <<>> THEN NoExt
      ELSE IF parts[Len(parts)] = <<".", ".">> THEN NoExt
      ELSE parts[Len(parts)]

\* Path::extension: the part of the file name after its last dot; None when
\* there is no file name, no dot, or the only dot is the leading one.
extension(path) ==
  LET f == file_name(path)
      d == LastIndexOf(f, ".")
  IN  IF f = NoExt THEN NoExt
      ELSE IF d <= 1 THEN NoExt
      ELSE SubSeq(f, d + 1, Len(f))

\* str::to_lowercase on the characters the model uses.
LowerChar(c) ==
  CASE c = "G" -> "g"
    [] c = "Z" -> "z"
    [] OTHER -> c

to_lowercase(s) == [i \in 1..Len(s) |-> LowerChar(s[i])]

(***************************************************************************)
(* Bytes and codecs.  A gzip or zstandard stream is its magic token        *)
(* followed by the payload; decoding a stream without the magic fails.     *)
(***************************************************************************)
Tok(tag, body) == [tag |-> tag, body |-> body]

GzMagic == Tok("gz-magic", {})
ZstdMagic == Tok("zstd-magic", {})
Newline == Tok("nl", {})
RawByte == Tok("byte", {})

GzEncode(data) == <<GzMagic>> \o data
ZstdEncode(data) == <<ZstdMagic>> \o data

DecodeErr == <<Tok("decode-error", {})>>

GzDecode(bytes) ==
  IF bytes # <<>> /\ Head(bytes) = GzMagic THEN Tail(bytes) ELSE DecodeErr

ZstdDecode(bytes) ==
  IF bytes # <<>> /\ Head(bytes) = ZstdMagic THEN Tail(bytes) ELSE DecodeErr

\* The codec compress_data selects for an extension: exact, case-sensitive
\* match on "gz", "zstd", "zst".  WriteCodecSwapped is the variant that takes
\* the zstandard arm for "gz" too.
WriteCodecSwapped(ext) ==
  CASE ext = <<"g", "z">> -> "zstd"
    [] ext = <<"z", "s", "t", "d">> \/ ext = <<"z", "s", "t">> -> "zstd"
    [] OTHER -> "none"

WriteCodec(ext) ==
  CASE ext = <<"g", "z">> -> "gzip"
    [] ext = <<"z", "s", "t", "d">> \/ ext = <<"z", "s", "t">> -> "zstd"
    [] OTHER -> "none"

\* The codec read_local_file_into_memory selects: match after lowercasing.
ReadCodec(ext) ==
  LET e == to_lowercase(ext)
  IN  CASE e = <<"g", "z">> -> "gzip"
        [] e = <<"z", "s", "t", "d">> \/ e = <<"z", "s", "t">> -> "zstd"
        [] OTHER -> "none"

Panic == <<Tok("panic", {})>>

\* compress_data: extension().unwrap() panics on a path without extension.
compress_data(data, filename) ==
  LET ext == extension(filename)
  IN  IF ext = NoExt THEN Panic
      ELSE CASE WriteCodec(ext) = "gzip" -> GzEncode(data)
             [] WriteCodec(ext) = "zstd" -> ZstdEncode(data)
             [] OTHER -> data

(***************************************************************************)
(* Parquet files and parquet_to_json.                                      *)
(*                                                                         *)
(* A file is [readable, schema, groups]: readable is FALSE when File::open,*)
(* read_metadata or infer_schema fails; schema is the sequence of fields   *)
(* [name, type]; groups is the sequence of row groups [ok, nrows], ok      *)
(* FALSE for a row group the reader cannot decode.  The cell of row r      *)
(* (counted over the whole file) in column c of file fid is Cell(fid,r,c). *)
(***************************************************************************)
Field(n, t) == [name |-> n, type |-> t]
Group(ok, n) == [ok |-> ok, nrows |-> n]
ParquetFile(r, s, g) == [readable |-> r, schema |-> s, groups |-> g]

Cell(fid, r, c) == <<fid, r, c>>

None == [some |-> FALSE, cols |-> <<>>]
Some(cols) == [some |-> TRUE, cols |-> cols]

\* position(|field| field.name == name): index of the first field so named.
Position(schema, name) ==
  LET hits == {i \in 1..Len(schema) : schema[i].name = name}
  IN  IF hits = {} THEN 0 ELSE CHOOSE i \in hits : \A j \in hits : i <= j

\* Variant that resolves a missing name to the first column.
ColumnIndicesDefaulting(schema, columns) ==
  IF columns.some
  THEN [i \in 1..Len(columns.cols) |->
          IF Position(schema, columns.cols[i]) = 0 THEN 1
          ELSE Position(schema, columns.cols[i])]
  ELSE [i \in 1..Len(schema) |-> i]

\* column_indices: the requested names resolved in request order, names
\* absent from the schema skipped; every column when nothing is requested.
ColumnIndices(schema, columns) ==
  IF columns.some
  THEN LET pos == [i \in 1..Len(columns.cols) |-> Position(schema, columns.cols[i])]
       IN  SelectSeq(pos, LAMBDA p : p # 0)
  ELSE [i \in 1..Len(schema) |-> i]

\* serde_json::Map::insert
Insert(obj, k, v) == [x \in (DOMAIN obj) \cup {k} |-> IF x = k THEN v ELSE obj[x]]

EmptyObj == [x \in {} |-> <<>>]

\* Variant that stops after the first resolved column.
RowObjectFirstOnly(fid, schema, idxs, r) ==
  IF idxs = <<>> THEN EmptyObj
  ELSE Insert(EmptyObj, schema[idxs[1]].name, Cell(fid, r, idxs[1]))

\* The object of one row: the resolved columns inserted in order under the
\* schema's own field names.
RECURSIVE RowObject(_, _, _, _)
RowObject(fid, schema, idxs, r) ==
  IF idxs = <<>> THEN EmptyObj
  ELSE LET n == Len(idxs)
           c == idxs[n]
       IN  Insert(RowObject(fid, schema, SubSeq(idxs, 1, n - 1), r),
                  schema[c].name, Cell(fid, r, c))

\* One iteration of `for maybe_chunk in reader`: "err" when the chunk is an
\* Err (the ? returns it), "panic" when a row exists and the downcast of a
\* projected column to Utf8Array<i32> fails, else the chunk's row objects.
ChunkRows(fid, schema, idxs, g, offset) ==
  IF ~g.ok THEN [status |-> "err", rows |-> <<>>]
  ELSE IF g.nrows > 0 /\ \E i \in 1..Len(idxs) : schema[idxs[i]].type # "Utf8"
  THEN [status |-> "panic", rows |-> <<>>]
  ELSE [status |-> "ok",
        rows |-> [r \in 1..g.nrows |-> RowObject(fid, schema, idxs, offset + r)]]

RECURSIVE ReadGroups(_, _, _, _, _, _)
ReadGroups(fid, schema, idxs, groups, offset, acc) ==
  IF groups = <<>> THEN [status |-> "ok", rows |-> acc]
  ELSE LET c == ChunkRows(fid, schema, idxs, Head(groups), offset)
       IN  IF c.status # "ok" THEN c
           ELSE ReadGroups(fid, schema, idxs, Tail(groups),
                           offset + Head(groups).nrows, acc \o c.rows)

\* parquet_to_json as a whole.
parquet_to_json(fid, file, columns) ==
  IF ~file.readable THEN [status |-> "panic", rows |-> <<>>]
  ELSE ReadGroups(fid, file.schema, ColumnIndices(file.schema, columns),
                  file.groups, 0, <<>>)

(***************************************************************************)
(* Output naming and serialisation (main.rs).                              *)
(***************************************************************************)
PadWidth == 8

DigitChars == <<"0", "1", "2", "3", "4", "5", "6", "7", "8", "9">>

RECURSIVE Digits(_)
Digits(n) ==
  IF n < 10 THEN <<DigitChars[n + 1]>>
  ELSE Append(Digits(n \div 10), DigitChars[(n % 10) + 1])

\* Variant that keeps only the last PadWidth digits.
ZeroPadTruncating(id) ==
  LET d == Digits(id)
  IN  IF Len(d) >= PadWidth THEN SubSeq(d, Len(d) - PadWidth + 1, Len(d))
      ELSE [i \in 1..(PadWidth - Len(d)) |-> "0"] \o d

\* format!("{:08}", id): at least PadWidth digits, zero-padded on the left.
ZeroPad(id) ==
  LET d == Digits(id)
  IN  IF Len(d) >= PadWidth THEN d
      ELSE [i \in 1..(PadWidth - Len(d)) |-> "0"] \o d

JsonlGz == <<".", "j", "s", "o", "n", "l", ".", "g", "z">>

\* PathBuf::join: an absolute right-hand side replaces the base.
Join(base, name) ==
  IF name # <<>> /\ name[1] = "/" THEN name
  ELSE IF base = <<>> \/ base[Len(base)] = "/" THEN base \o name
  ELSE base \o <<"/">> \o name

get_output_filename(output_dir, pfx, id) ==
  Join(output_dir, pfx \o ZeroPad(id) \o JsonlGz)

\* serde_json::to_string of one row object: one text token carrying the
\* object's key/value pairs.
to_string(obj) == Tok("line", {<<k, obj[k]>> : k \in DOMAIN obj})

\* line_chunk.join("\n").into_bytes()
RECURSIVE JoinLines(_)
JoinLines(lines) ==
  IF lines = <<>> THEN <<>>
  ELSE IF Len(lines) = 1 THEN lines
  ELSE <<Head(lines), Newline>> \o JoinLines(Tail(lines))

\* Variant whose chunks run one record into the next chunk.
ChunkOverlapping(rows, m, k) == SubSeq(rows, k * m + 1, Min((k + 1) * m + 1, Len(rows)))

\* The k-th element (k from 0) of json_rows.chunks(max_docs), max_docs > 0.
Chunk(rows, m, k) == SubSeq(rows, k * m + 1, Min((k + 1) * m, Len(rows)))

(***************************************************************************)
(* State.                                                                  *)
(*   args        the parsed Args (text_key, id_key, max_docs, output,      *)
(*               prefix)                                                   *)
(*   input_files the list expand_dirs returned to main                     *)
(*   counter     the AtomicUsize shared by every worker                    *)
(*   tasks       per input file, the for_each closure run on it by some    *)
(*               worker of the pool: pc (pending, decode, loop, write,     *)
(*               done, failed when process_parquet panicked, skipped when  *)
(*               never started), json_rows, the index k of the next chunk  *)
(*               and the file_id fetched for it.  A worker runs one file   *)
(*               at a time, so at most MaxWorkers tasks run at once.       *)
(*   disk        the output files: path -> bytes                           *)
(*   shards      what was persisted: [file, chunk, id, path, lines]        *)
(*   handed      the values fetch_add returned, in order                   *)
(*   panicked    a task of the par_iter panicked                           *)
(*   mainpc      main: run, finished (summary printed) or aborted          *)
(*   codec, dec, disc   the state of SpecCodec, SpecDecode, SpecDiscover   *)
(***************************************************************************)
VARIABLES args, input_files, counter, tasks, disk, shards, handed,
          panicked, mainpc, codec, dec, disc

vars == <<args, input_files, counter, tasks, disk, shards, handed,
          panicked, mainpc, codec, dec, disc>>

Pending == [pc |-> "pending", json_rows |-> <<>>, k |-> 0, file_id |-> 0]

Running(t) == t.pc \in {"decode", "loop", "write"}

\* Sample schemas and files.
SchemaFull == <<Field("text", "Utf8"), Field("id", "Utf8"), Field("other", "Utf8")>>
SchemaNoId == <<Field("text", "Utf8"), Field("other", "Utf8")>>
SchemaContent == <<Field("content", "Utf8"), Field("id", "Utf8"), Field("text", "Utf8")>>
SchemaIntId == <<Field("text", "Utf8"), Field("id", "Int64")>>

\* n rows laid out in row groups of at most two rows.
RECURSIVE GroupsOf(_)
GroupsOf(n) == IF n = 0 THEN <<>> ELSE <<Group(TRUE, Min(n, 2))>> \o GroupsOf(n - Min(n, 2))

Unreadable == ParquetFile(FALSE, <<>>, <<>>)
BadGroup == ParquetFile(TRUE, SchemaFull, <<Group(TRUE, 1), Group(FALSE, 1)>>)
IntIdFile == ParquetFile(TRUE, SchemaIntId, <<Group(TRUE, 1)>>)

GoodFiles ==
  {ParquetFile(TRUE, SchemaFull, GroupsOf(n)) : n \in 0..MaxRows}
    \cup {ParquetFile(TRUE, SchemaNoId, GroupsOf(1)),
          ParquetFile(TRUE, SchemaContent, GroupsOf(2))}

FirstFiles == GoodFiles \cup {Unreadable, BadGroup, IntIdFile}

MoreFiles == {ParquetFile(TRUE, SchemaFull, GroupsOf(2)), Unreadable}

\* The spec's chunking example: 7 records.
SevenRows == ParquetFile(TRUE, SchemaFull, GroupsOf(7))

InputLists ==
  {<<a>> \o rest : a \in FirstFiles, rest \in SeqsUpTo(MoreFiles, MaxFiles - 1)}
    \cup {<<SevenRows>>}

KeyConfigs == {<<"text", "id">>, <<"content", "id">>}

OutputDir == <<"o">>
Prefix == <<"p", "_">>

\* The other specifications' state while Spec runs.
CodecOff == [pc |-> "off", path |-> <<>>, data |-> <<>>, stored |-> <<>>, read |-> <<>>]
DecOff == [pc |-> "off", file |-> Unreadable, columns |-> None, idxs |-> <<>>,
           g |-> 0, offset |-> 0, json_objects |-> <<>>]
DiscOff == [pc |-> "off", paths |-> <<>>, i |-> 0, files |-> <<>>]

(***************************************************************************)
(* Spec: the pipeline of main.rs.                                          *)
(***************************************************************************)
Init ==
  /\ \E kc \in KeyConfigs, m \in 0..MaxDocs :
       args = [text_key |-> kc[1], id_key |-> kc[2], max_docs |-> m,
               output |-> OutputDir, prefix |-> Prefix]
  /\ input_files \in InputLists
  /\ counter = 0
  /\ tasks = [f \in 1..Len(input_files) |-> Pending]
  /\ disk = EmptyObj
  /\ shards = {}
  /\ handed = <<>>
  /\ panicked = FALSE
  /\ mainpc = "run"
  /\ codec = CodecOff
  /\ dec = DecOff
  /\ disc = DiscOff

\* par_iter().for_each: a free worker of the pool takes a file nobody has
\* started.
PickFile(f) ==
  /\ mainpc = "run"
  /\ tasks[f].pc = "pending"
  /\ Cardinality({g \in DOMAIN tasks : Running(tasks[g])}) < MaxWorkers
  /\ tasks' = [tasks EXCEPT ![f].pc = "decode"]
  /\ UNCHANGED <<args, input_files, counter, disk, shards, handed, panicked, mainpc, codec, dec, disc>>

\* A panic inside process_parquet unwinds the task: the file is failed, the
\* files that follow it in the same sequential leaf of the parallel iterator
\* (any run of not yet started successors) are never started, and rayon
\* keeps the panic to resume it in main once the other tasks are over.
PanicIn(f) ==
  /\ \E n \in 0..(Len(input_files) - f) :
       /\ \A j \in (f + 1)..(f + n) : tasks[j].pc = "pending"
       /\ tasks' = [j \in DOMAIN tasks |->
                      IF j = f THEN [Pending EXCEPT !.pc = "failed"]
                      ELSE IF j \in (f + 1)..(f + n) THEN [Pending EXCEPT !.pc = "skipped"]
                      ELSE tasks[j]]
  /\ panicked' = TRUE

\* slice::chunks(chunk_size) asserts chunk_size != 0, whatever the slice.
\* ChunksNeverPanics is the variant that accepts a chunk size of 0.
ChunksNeverPanics(m) == FALSE

ChunksPanics(m) == m = 0

\* main.rs 81-84: decode the file and set up chunks(max_docs).  Both the
\* unwrap of a failed decode and chunks(0) panic.
Decode(f) ==
  LET r == parquet_to_json(f, input_files[f], Some(<<args.text_key, args.id_key>>))
  IN  /\ tasks[f].pc = "decode"
      /\ IF r.status # "ok" \/ ChunksPanics(args.max_docs)
         THEN PanicIn(f)
         ELSE /\ tasks' = [tasks EXCEPT ![f].pc = "loop", ![f].json_rows = r.rows,
                                        ![f].k = 0]
              /\ UNCHANGED panicked
      /\ UNCHANGED <<args, input_files, counter, disk, shards, handed, mainpc, codec, dec, disc>>

\* The number of chunks json_rows.chunks(m) yields for n rows, m > 0.
NumChunks(n, m) == (n + m - 1) \div m

\* The value the counter holds after fetch_add(1); CounterAfterLoad is the
\* variant that reads the counter without adding to it.
CounterAfterLoad(c) == c

CounterAfterFetchAdd(c) == c + 1

\* main.rs 85: the next chunk exists; counter.fetch_add(1, SeqCst).
FetchAdd(f) ==
  /\ tasks[f].pc = "loop"
  /\ tasks[f].k < NumChunks(Len(tasks[f].json_rows), args.max_docs)
  /\ tasks' = [tasks EXCEPT ![f].pc = "write", ![f].file_id = counter]
  /\ counter' = CounterAfterFetchAdd(counter)
  /\ handed' = Append(handed, counter)
  /\ UNCHANGED <<args, input_files, disk, shards, panicked, mainpc, codec, dec, disc>>

\* main.rs 86-89: name, serialise, compress and persist the chunk.
WriteShard(f) ==
  LET me == tasks[f]
      output_filename == get_output_filename(args.output, args.prefix, me.file_id)
      chunk == Chunk(me.json_rows, args.max_docs, me.k)
      line_chunk == [i \in 1..Len(chunk) |-> to_string(chunk[i])]
      contents == JoinLines(line_chunk)
      compressed_data == compress_data(contents, output_filename)
  IN  /\ me.pc = "write"
      /\ compressed_data # Panic
      /\ disk' = Insert(disk, output_filename, compressed_data)
      /\ shards' = shards \cup {[file |-> f, chunk |-> me.k, id |-> me.file_id,
                                 path |-> output_filename, lines |-> line_chunk]}
      /\ tasks' = [tasks EXCEPT ![f].pc = "loop", ![f].k = me.k + 1]
      /\ UNCHANGED <<args, input_files, counter, handed, panicked, mainpc, codec, dec, disc>>

\* local_io.rs 179-182: create_dir_all, File::create or write_all fails and
\* the unwrap/expect panics.
WriteFails(f) ==
  /\ tasks[f].pc = "write"
  /\ PanicIn(f)
  /\ UNCHANGED <<args, input_files, counter, disk, shards, handed, mainpc, codec, dec, disc>>

\* main.rs 90-93, 121: no chunk is left, process_parquet returns Ok(()).
FinishFile(f) ==
  /\ tasks[f].pc = "loop"
  /\ tasks[f].k >= NumChunks(Len(tasks[f].json_rows), args.max_docs)
  /\ tasks' = [tasks EXCEPT ![f] = [Pending EXCEPT !.pc = "done"]]
  /\ UNCHANGED <<args, input_files, counter, disk, shards, handed, panicked, mainpc, codec, dec, disc>>

\* main.rs 123-128: for_each returns and the summary is printed, or the kept
\* panic is resumed in main.
Complete ==
  /\ mainpc = "run"
  /\ \A f \in DOMAIN tasks : ~Running(tasks[f]) /\ tasks[f].pc # "pending"
  /\ mainpc' = IF panicked THEN "aborted" ELSE "finished"
  /\ UNCHANGED <<args, input_files, counter, tasks, disk, shards, handed, panicked, codec, dec, disc>>

Next ==
  \/ \E f \in DOMAIN tasks : PickFile(f)
  \/ \E f \in DOMAIN tasks : Decode(f)
  \/ \E f \in DOMAIN tasks : FetchAdd(f)
  \/ \E f \in DOMAIN tasks : WriteShard(f)
  \/ \E f \in DOMAIN tasks : WriteFails(f)
  \/ \E f \in DOMAIN tasks : FinishFile(f)
  \/ Complete

Spec == Init /\ [][Next]_vars

(***************************************************************************)
(* The state of Spec's variables while another specification runs.        *)
(***************************************************************************)
PipelineOff ==
  /\ args = [text_key |-> "text", id_key |-> "id", max_docs |-> 1,
             output |-> OutputDir, prefix |-> Prefix]
  /\ input_files = <<>>
  /\ counter = 0
  /\ tasks = <<>>
  /\ disk = EmptyObj
  /\ shards = {}
  /\ handed = <<>>
  /\ panicked = FALSE
  /\ mainpc = "off"

pipeVars == <<args, input_files, counter, tasks, disk, shards, handed, panicked, mainpc>>

(***************************************************************************)
(* SpecCodec: write_mem_to_pathbuf, then read_local_file_into_memory of    *)
(* the file written, for a path and a buffer drawn from samples.           *)
(*   codec.pc: start, written, write-panicked (compress_data), write-failed*)
(*             (I/O), read, read-panicked                                  *)
(***************************************************************************)
ExtAlphabet == {"g", "z", "Z", "s", "t", "d"}

Suffixes == {<<>>} \cup {<<".">> \o e : e \in SeqsUpTo(ExtAlphabet, MaxExtLen)}

Stems == {<<>>, <<"g">>, <<".">>}

Dirs == {<<>>, <<"g", ".", "z", "/">>}

SamplePaths == {d \o n \o x : d \in Dirs, n \in Stems, x \in Suffixes}

\* A plain buffer, and one that happens to begin like a gzip stream.
SampleData == {<<RawByte, Newline, RawByte>>, <<GzMagic, RawByte>>}

InitCodec ==
  /\ PipelineOff
  /\ \E p \in SamplePaths, b \in SampleData :
       codec = [pc |-> "start", path |-> p, data |-> b, stored |-> <<>>, read |-> <<>>]
  /\ dec = DecOff
  /\ disc = DiscOff

\* local_io.rs 175-185 with compress_data: the bytes are compressed by the
\* path's extension and written; a path without extension panics in the
\* unwrap of compress_data before anything is created.
WriteMem ==
  LET compressed_data == compress_data(codec.data, codec.path)
  IN  /\ codec.pc = "start"
      /\ codec' = IF compressed_data = Panic
                  THEN [codec EXCEPT !.pc = "write-panicked"]
                  ELSE [codec EXCEPT !.pc = "written", !.stored = compressed_data]
      /\ UNCHANGED <<pipeVars, dec, disc>>

\* local_io.rs 179-182: create_dir_all, File::create or write_all fails.
WriteMemIoFails ==
  /\ codec.pc = "start"
  /\ compress_data(codec.data, codec.path) # Panic
  /\ codec' = [codec EXCEPT !.pc = "write-failed"]
  /\ UNCHANGED <<pipeVars, dec, disc>>

\* local_io.rs 94-114: the file is opened and decoded by the lowercased
\* extension; a stream the decoder rejects panics in the expect.
ReadLocalFile ==
  LET ext == extension(codec.path)
      contents == CASE ReadCodec(ext) = "gzip" -> GzDecode(codec.stored)
                    [] ReadCodec(ext) = "zstd" -> ZstdDecode(codec.stored)
                    [] OTHER -> codec.stored
  IN  /\ codec.pc = "written"
      /\ codec' = IF ext = NoExt \/ contents = DecodeErr
                  THEN [codec EXCEPT !.pc = "read-panicked"]
                  ELSE [codec EXCEPT !.pc = "read", !.read = contents]
      /\ UNCHANGED <<pipeVars, dec, disc>>

NextCodec == WriteMem \/ WriteMemIoFails \/ ReadLocalFile

SpecCodec == InitCodec /\ [][NextCodec]_vars

(***************************************************************************)
(* SpecDecode: parquet_to_json on one file, one row group per step.        *)
(*   dec.pc: open, reading, returned (Ok), err (Err returned by ?),        *)
(*           panicked (an unwrap failed)                                   *)
(***************************************************************************)
SchemaTwice == <<Field("id", "Utf8"), Field("text", "Utf8"), Field("text", "Utf8")>>

DecodeSchemas == {SchemaFull, SchemaNoId, SchemaContent, SchemaIntId, SchemaTwice}

DecodeGroups ==
  {GroupsOf(n) : n \in 0..MaxRows}
    \cup {<<Group(TRUE, 1), Group(FALSE, 1)>>, <<Group(TRUE, 0), Group(TRUE, 2)>>}

DecodeFiles ==
  {ParquetFile(TRUE, sc, gs) : sc \in DecodeSchemas, gs \in DecodeGroups} \cup {Unreadable}

RequestNames == {"text", "id", "other", "missing"}

ColumnRequests == {None} \cup {Some(c) : c \in SeqsUpTo(RequestNames, 2)}

InitDecode ==
  /\ PipelineOff
  /\ codec = CodecOff
  /\ \E file \in DecodeFiles, columns \in ColumnRequests :
       dec = [pc |-> "open", file |-> file, columns |-> columns, idxs |-> <<>>,
              g |-> 0, offset |-> 0, json_objects |-> <<>>]
  /\ disc = DiscOff

\* local_io.rs 118-140: open, metadata, schema (each unwrapped), then the
\* requested names are resolved to column indices.
OpenParquet ==
  /\ dec.pc = "open"
  /\ dec' = IF ~dec.file.readable
            THEN [dec EXCEPT !.pc = "panicked"]
            ELSE [dec EXCEPT !.pc = "reading",
                             !.idxs = ColumnIndices(dec.file.schema, dec.columns),
                             !.g = 1]
  /\ UNCHANGED <<pipeVars, codec, disc>>

\* local_io.rs 141-161: one iteration of the loop over the reader's chunks.
ReadChunk ==
  LET grp == dec.file.groups[dec.g]
      c == ChunkRows(1, dec.file.schema, dec.idxs, grp, dec.offset)
  IN  /\ dec.pc = "reading"
      /\ dec.g <= Len(dec.file.groups)
      /\ dec' = CASE c.status = "err" -> [dec EXCEPT !.pc = "err", !.json_objects = <<>>]
                  [] c.status = "panic" -> [dec EXCEPT !.pc = "panicked", !.json_objects = <<>>]
                  [] OTHER -> [dec EXCEPT !.json_objects = dec.json_objects \o c.rows,
                                          !.g = dec.g + 1,
                                          !.offset = dec.offset + grp.nrows]
      /\ UNCHANGED <<pipeVars, codec, disc>>

\* local_io.rs 162: Ok(json_objects)
ReturnRows ==
  /\ dec.pc = "reading"
  /\ dec.g > Len(dec.file.groups)
  /\ dec' = [dec EXCEPT !.pc = "returned"]
  /\ UNCHANGED <<pipeVars, codec, disc>>

NextDecode == OpenParquet \/ ReadChunk \/ ReturnRows

SpecDecode == InitDecode /\ [][NextDecode]_vars

(***************************************************************************)
(* SpecDiscover: expand_dirs, one locator per step.                        *)
(* A locator is [path, is_dir, utf8, entries]: entries is what the glob    *)
(* iterator yields for the directory's pattern, each [ok, path], ok FALSE  *)
(* for an entry the iterator could not read.                               *)
(*   disc.pc: loop, returned (Ok(files)), err (Err), panicked              *)
(***************************************************************************)
Locator(p, d, u, es) == [path |-> p, is_dir |-> d, utf8 |-> u, entries |-> es]
Entry(ok, p) == [ok |-> ok, path |-> p]

GlobTail == <<"/", "*", "*", "/", "*", ".", "p", "a", "r", "q", "u", "e", "t">>

\* glob::Pattern::new accepts the pattern from position i on: a run of more
\* than two stars is an error; a run of two must be a whole path component;
\* a "[" must be closed by a "]" at least two characters on (three after "[!").
RECURSIVE PatternOkFrom(_, _)
PatternOkFrom(s, i) ==
  IF i > Len(s) THEN TRUE
  ELSE IF s[i] = "*"
  THEN LET stops == {j \in i..Len(s) : s[j] # "*"}
           e == IF stops = {} THEN Len(s) + 1
                ELSE CHOOSE j \in stops : \A k \in stops : j <= k
           count == e - i
       IN  IF count > 2 THEN FALSE
           ELSE IF count = 2
           THEN IF i = 1 \/ s[i - 1] = "/"
                THEN IF e <= Len(s) /\ s[e] = "/" THEN PatternOkFrom(s, e + 1)
                     ELSE IF e > Len(s) THEN TRUE
                     ELSE FALSE
                ELSE FALSE
           ELSE PatternOkFrom(s, e)
  ELSE IF s[i] = "["
  THEN LET from == IF i + 3 <= Len(s) /\ s[i + 1] = "!" THEN i + 3 ELSE i + 2
           closes == {j \in from..Len(s) : s[j] = "]"}
       IN  IF closes = {} THEN FALSE
           ELSE PatternOkFrom(s, (CHOOSE j \in closes : \A k \in closes : j <= k) + 1)
  ELSE PatternOkFrom(s, i + 1)

\* Variant that accepts every pattern.
PatternAlwaysOk(s) == TRUE

PatternOk(s) == PatternOkFrom(s, 1)

FileLoc == Locator(<<"f">>, FALSE, TRUE, <<>>)
DirLoc == Locator(<<"d">>, TRUE, TRUE,
                  <<Entry(TRUE, <<"d", "/", "a">>), Entry(FALSE, <<"d", "/", "x">>),
                    Entry(TRUE, <<"d", "/", "s", "/", "b">>)>>)
EmptyDirLoc == Locator(<<"e">>, TRUE, TRUE, <<>>)
BracketDirLoc == Locator(<<"d", "[">>, TRUE, TRUE, <<Entry(TRUE, <<"d", "[", "/", "c">>)>>)
StarDirLoc == Locator(<<"d", "*">>, TRUE, TRUE, <<Entry(TRUE, <<"d", "*", "/", "c">>)>>)
NonUtf8DirLoc == Locator(<<"u">>, TRUE, FALSE, <<>>)

SampleLocators == {FileLoc, DirLoc, EmptyDirLoc, BracketDirLoc, StarDirLoc, NonUtf8DirLoc}

InitDiscover ==
  /\ PipelineOff
  /\ codec = CodecOff
  /\ dec = DecOff
  /\ \E ps \in SeqsUpTo(SampleLocators, MaxLocators) :
       disc = [pc |-> "loop", paths |-> ps, i |-> 1, files |-> <<>>]

\* The matches the glob iterator yields Ok for.
OkEntries(es) ==
  LET oks == SelectSeq(es, LAMBDA e : e.ok)
  IN  [k \in 1..Len(oks) |-> oks[k].path]

\* local_io.rs 48-63: one iteration of `for path in paths`.
ExpandOne ==
  LET path == disc.paths[disc.i]
  IN  /\ disc.pc = "loop"
      /\ disc.i <= Len(disc.paths)
      /\ disc' =
           IF ~path.is_dir
           THEN [disc EXCEPT !.files = Append(disc.files, path.path), !.i = disc.i + 1]
           ELSE IF ~path.utf8
           THEN [disc EXCEPT !.pc = "err", !.files = <<>>]
           ELSE IF ~PatternOk(path.path \o GlobTail)
           THEN [disc EXCEPT !.pc = "panicked", !.files = <<>>]
           ELSE [disc EXCEPT !.files = disc.files \o OkEntries(path.entries),
                             !.i = disc.i + 1]
      /\ UNCHANGED <<pipeVars, codec, dec>>

\* local_io.rs 64: Ok(files)
ReturnFiles ==
  /\ disc.pc = "loop"
  /\ disc.i > Len(disc.paths)
  /\ disc' = [disc EXCEPT !.pc = "returned"]
  /\ UNCHANGED <<pipeVars, codec, dec>>

NextDiscover == ExpandOne \/ ReturnFiles

SpecDiscover == InitDiscover /\ [][NextDiscover]_vars

(***************************************************************************)
(* Properties of the pipeline.                                             *)
(***************************************************************************)
\* What the decoder returns for input file f under the configured keys.
Decoded(f) == parquet_to_json(f, input_files[f], Some(<<args.text_key, args.id_key>>))

ShardsOf(f) == {s \in shards : s.file = f}

CeilDiv(n, m) == IF n % m = 0 THEN n \div m ELSE (n \div m) + 1

\* C1: when the run completes without error, the ids fetch_add handed out are
\* pairwise different and are exactly 0 .. total_shards-1, total_shards being
\* both the final counter value and the number of shards persisted.
C1_UniqueShardIds ==
  mainpc = "finished" =>
    /\ \A i, j \in 1..Len(handed) : i # j => handed[i] # handed[j]
    /\ Range(handed) = 0..(counter - 1)
    /\ {s.id : s \in shards} = 0..(counter - 1)
    /\ Cardinality(shards) = counter

\* Two files' chunks were numbered in interleaved order and the run finished.
C1_Witness ==
  /\ mainpc = "finished"
  /\ \E a, b, c \in shards :
       a.file = c.file /\ a.file # b.file /\ a.id < b.id /\ b.id < c.id

\* C2: a file of n records processed with max_docs = m >= 1 yields exactly
\* ceil(n/m) shards; the k-th holds records k*m .. min((k+1)*m, n)-1 in source
\* order (m records in every shard but the last, 1..m in the last), the shards
\* are numbered in chunk order, and the file on disk is the gzip stream of the
\* newline-joined lines.
C2_Chunking ==
  \A f \in DOMAIN tasks :
    tasks[f].pc = "done" =>
      LET rows == Decoded(f).rows
          n == Len(rows)
          m == args.max_docs
          c == CeilDiv(n, m)
      IN  /\ m >= 1
          /\ Cardinality(ShardsOf(f)) = c
          /\ \A k \in 0..(c - 1) :
               \E s \in ShardsOf(f) :
                 /\ s.chunk = k
                 /\ Len(s.lines) = IF k < c - 1 THEN m ELSE n - k * m
                 /\ Len(s.lines) \in 1..m
                 /\ \A i \in 1..Len(s.lines) : s.lines[i] = to_string(rows[k * m + i])
                 /\ disk[s.path] = GzEncode(JoinLines(s.lines))
          /\ \A s, t \in ShardsOf(f) : s.chunk < t.chunk => s.id < t.id

\* A file of 7 records was cut with max_docs = 3 into shards of 3, 3 and 1.
C2_Witness ==
  \E f \in DOMAIN tasks :
    /\ tasks[f].pc = "done"
    /\ args.max_docs = 3
    /\ Len(Decoded(f).rows) = 7
    /\ {<<s.chunk, Len(s.lines)>> : s \in ShardsOf(f)} = {<<0, 3>>, <<1, 3>>, <<2, 1>>}

\* C3 (as claimed): whenever the run is over and the only failures were decode
\* failures, every file that decodes has been processed to the end and all of
\* its shards are persisted.
C3_DecodeFailureIsolated ==
  ( /\ mainpc # "run"
    /\ args.max_docs >= 1
    /\ \A f \in DOMAIN tasks : tasks[f].pc = "failed" => Decoded(f).status # "ok" )
  => \A f \in DOMAIN tasks :
       Decoded(f).status = "ok" =>
         /\ tasks[f].pc = "done"
         /\ Cardinality(ShardsOf(f)) = CeilDiv(Len(Decoded(f).rows), args.max_docs)

\* C4 (as claimed): with max_docs = 0 no decodable file fails, nothing is
\* written and the counter stays 0.
C4_MaxDocsZeroIsNoop ==
  args.max_docs = 0 =>
    /\ shards = {}
    /\ DOMAIN disk = {}
    /\ counter = 0
    /\ \A f \in DOMAIN tasks : Decoded(f).status = "ok" => tasks[f].pc # "failed"

\* C4 (amended): with max_docs = 0 nothing is written and the counter stays 0,
\* but no file's processing ever returns: every file that is started panics
\* (a decodable one in chunks(0)) and the run never finishes without error.
C4_MaxDocsZeroPanics ==
  args.max_docs = 0 =>
    /\ shards = {}
    /\ DOMAIN disk = {}
    /\ counter = 0
    /\ \A f \in DOMAIN tasks : tasks[f].pc \in {"pending", "decode", "failed", "skipped"}
    /\ mainpc # "finished"
    /\ mainpc = "aborted" => panicked

\* With max_docs = 0 a decodable file with rows was started and panicked, and
\* the run is over.
C4_Witness ==
  /\ args.max_docs = 0
  /\ mainpc = "aborted"
  /\ \E f \in DOMAIN tasks :
       /\ tasks[f].pc = "failed"
       /\ Decoded(f).status = "ok"
       /\ Len(Decoded(f).rows) > 0

Keys(line) == {p[1] : p \in line.body}

SchemaNames(f) == {input_files[f].schema[i].name : i \in 1..Len(input_files[f].schema)}

DigitValue(c) ==
  CASE c = "0" -> 0 [] c = "1" -> 1 [] c = "2" -> 2 [] c = "3" -> 3 [] c = "4" -> 4
    [] c = "5" -> 5 [] c = "6" -> 6 [] c = "7" -> 7 [] c = "8" -> 8 [] c = "9" -> 9

RECURSIVE DigitsValueFrom(_, _, _)
DigitsValueFrom(d, i, acc) ==
  IF i > Len(d) THEN acc ELSE DigitsValueFrom(d, i + 1, 10 * acc + DigitValue(d[i]))

DigitsValue(d) == DigitsValueFrom(d, 1, 0)

\* Ids around the point where the decimal form outgrows the pad width.
SampleIds == {9, 10, 99999999, 100000000, 100000001, 1099999999}

\* The path get_output_filename gives is <output>/<prefix><digits>.jsonl.gz
\* where digits are at least PadWidth decimal digits denoting id.
WellFormedPath(path, id) ==
  LET head == args.output \o <<"/">> \o args.prefix
      nd == Len(path) - Len(head) - Len(JsonlGz)
      digits == SubSeq(path, Len(head) + 1, Len(head) + nd)
  IN  /\ nd >= PadWidth
      /\ SubSeq(path, 1, Len(head)) = head
      /\ SubSeq(path, Len(head) + nd + 1, Len(path)) = JsonlGz
      /\ \A i \in 1..nd : digits[i] \in Range(DigitChars)
      /\ DigitsValue(digits) = id
      /\ (nd > PadWidth => digits[1] # "0")

HasSuffix(path, e) ==
  LET f == file_name(path)
  IN  /\ f # NoExt
      /\ Len(f) >= Len(e) + 2
      /\ SubSeq(f, Len(f) - Len(e), Len(f)) = <<".">> \o e

\* The path has no file name, or no dot in it after its first character.
NoSuffix(path) ==
  LET f == file_name(path)
  IN  f = NoExt \/ \A i \in 2..Len(f) : f[i] # "."

Gz == <<"g", "z">>
Zst == <<"z", "s", "t">>
Zstd == <<"z", "s", "t", "d">>

OtherSuffix(path) ==
  ~NoSuffix(path) /\ ~HasSuffix(path, Gz) /\ ~HasSuffix(path, Zst) /\ ~HasSuffix(path, Zstd)

\* What the suffix rule says is persisted.
BySuffix(path, data) ==
  IF HasSuffix(path, Gz) THEN GzEncode(data)
  ELSE IF HasSuffix(path, Zst) \/ HasSuffix(path, Zstd) THEN ZstdEncode(data)
  ELSE data

CompressRan == codec.pc \in {"written", "write-panicked", "read", "read-panicked"}

\* C5 (as claimed): for every path compress_data returns, without failing, the
\* bytes its suffix calls for: gzip for gz, zstandard for zst and zstd, the
\* input itself for any other suffix and for a path with no suffix.
C5_SuffixAlone ==
  CompressRan => codec.pc # "write-panicked" /\ codec.stored = BySuffix(codec.path, codec.data)

\* C5 (amended): for every path that has a suffix compress_data returns the
\* bytes the suffix calls for (gzip for gz, zstandard for zst and zstd, the
\* input itself for any other suffix); on a path with no suffix it panics.
C5_SuffixWhenPresent ==
  CompressRan =>
    IF NoSuffix(codec.path)
    THEN codec.pc = "write-panicked"
    ELSE codec.pc # "write-panicked" /\ codec.stored = BySuffix(codec.path, codec.data)

\* Bytes were passed through unmodified for a suffix that is none of the three.
C5_Witness ==
  /\ codec.pc = "written"
  /\ OtherSuffix(codec.path)
  /\ codec.stored = codec.data

\* C6 (as claimed): whatever the path, reading back a file written by
\* write_mem_to_pathbuf succeeds and yields exactly the bytes given to it.
C6_ReadInvertsWrite ==
  codec.pc \in {"read", "read-panicked"} => codec.pc = "read" /\ codec.read = codec.data

(***************************************************************************)
(* Properties of the decoder.                                              *)
(***************************************************************************)
DecNames == {dec.file.schema[i].name : i \in 1..Len(dec.file.schema)}

RECURSIVE SumRows(_)
SumRows(groups) == IF groups = <<>> THEN 0 ELSE Head(groups).nrows + SumRows(Tail(groups))

\* C7: with a requested field set, parquet_to_json returns one record per
\* source row, in row order, whose keys are exactly the requested names that
\* the schema has: a requested name absent from the schema is dropped, an
\* unrequested field never appears.
C7_Projection ==
  (dec.pc = "returned" /\ dec.columns.some) =>
    /\ Len(dec.json_objects) = SumRows(dec.file.groups)
    /\ \A r \in 1..Len(dec.json_objects) :
         /\ DOMAIN dec.json_objects[r] = Range(dec.columns.cols) \cap DecNames
         /\ \A k \in DOMAIN dec.json_objects[r] :
              \E c \in 1..Len(dec.file.schema) :
                /\ dec.file.schema[c].name = k
                /\ dec.json_objects[r][k] = Cell(1, r, c)

\* {"text","id"} was requested from a file with "text" and "other" but no
\* "id": the records returned have the key "text" only.
C7_Witness ==
  /\ dec.pc = "returned"
  /\ dec.columns = Some(<<"text", "id">>)
  /\ DecNames = {"text", "other"}
  /\ Len(dec.json_objects) >= 2
  /\ \A r \in 1..Len(dec.json_objects) : DOMAIN dec.json_objects[r] = {"text"}

(***************************************************************************)
(* Properties of discovery.                                                *)
(***************************************************************************)
\* The directory name has a "[" that no later "]" closes, so the pattern
\* derived from it is malformed.
UnclosedBracket(p) ==
  \E i \in 1..Len(p) : p[i] = "[" /\ \A j \in (i + 1)..Len(p) : p[j] # "]"

MalformedDir(loc) == loc.is_dir /\ loc.utf8 /\ UnclosedBracket(loc.path)

RECURSIVE OkPaths(_)
OkPaths(es) ==
  IF es = <<>> THEN <<>>
  ELSE (IF Head(es).ok THEN <<Head(es).path>> ELSE <<>>) \o OkPaths(Tail(es))

\* What the first n locators contribute, a malformed directory contributing
\* nothing.
RECURSIVE Contributions(_, _)
Contributions(paths, n) ==
  IF n = 0 THEN <<>>
  ELSE Contributions(paths, n - 1)
         \o (IF ~paths[n].is_dir THEN <<paths[n].path>>
             ELSE IF MalformedDir(paths[n]) THEN <<>>
             ELSE OkPaths(paths[n].entries))

AllUtf8 == \A j \in 1..Len(disc.paths) : disc.paths[j].utf8

\* C10 (as claimed): discovery never crashes on a malformed pattern, and the
\* list it returns holds the other locators' files in locator order, the
\* malformed directory contributing nothing.
C10_MalformedGlobIsEmpty ==
  /\ disc.pc # "panicked"
  /\ (AllUtf8 /\ disc.pc = "loop") =>
       disc.files = Contributions(disc.paths, disc.i - 1)
  /\ (AllUtf8 /\ disc.pc = "returned") =>
       disc.files = Contributions(disc.paths, Len(disc.paths))

\* C10 (amended): a directory locator whose derived glob pattern is malformed
\* makes expand_dirs panic when it is reached; no list is returned, so the
\* files of the other locators are lost.  Only when no locator before it is
\* malformed does discovery get past a locator, and then the list holds the
\* locators' files in locator order (non-directories verbatim, directories
\* expanded to their readable matches).
C10_MalformedGlobPanics ==
  /\ \A j \in 1..Len(disc.paths) :
       (j < disc.i \/ disc.pc = "returned") => ~MalformedDir(disc.paths[j])
  /\ disc.pc = "panicked" => MalformedDir(disc.paths[disc.i]) /\ disc.files = <<>>
  /\ disc.pc \in {"loop", "returned"} =>
       disc.files = Contributions(disc.paths, disc.i - 1)
  /\ disc.pc = "returned" => disc.i = Len(disc.paths) + 1

\* Discovery panicked on a malformed directory after a file and a directory
\* with matches had been collected.
C10_Witness ==
  /\ disc.pc = "panicked"
  /\ disc.i = 3
  /\ ~disc.paths[1].is_dir
  /\ disc.paths[2].is_dir /\ disc.paths[2].entries # <<>>
  /\ MalformedDir(disc.paths[3])

====
